---- MODULE Spec2Model ----
(***************************************************************************)
(* Bounding volume hierarchy of DataTransferKit: the queries               *)
(* (packages/Search/src/details/DTK_DetailsTreeTraversal.hpp) and          *)
(* BoundingVolumeHierarchy's constructor.                                  *)
(*                                                                         *)
(*   Spec       one query call at a time on a constructed hierarchy        *)
(*   SpecPair   the calls of two workers on one hierarchy, interleaved     *)
(*   SpecBuild  the constructor step by step, the propagation of the       *)
(*              boxes one worker per leaf                                  *)
(*   SpecCubes  the nearest query on the hierarchy of four unit cubes      *)
(*   SpecFair   Spec, where a call in its loop takes its next step         *)
(*                                                                         *)
(* and CopyOperator (core/src/DTK_CopyOperator_Def.hpp):                   *)
(*                                                                         *)
(*   SpecCopy   the constructor, then create_copy_mapping() and copy() in  *)
(*              any order                                                  *)
(*                                                                         *)
(* Coordinates are integers and a distance is held as its square, so that  *)
(* every distance is an exact integer; but for the four cubes, the         *)
(* hierarchies lie along one axis.  A Node pointer is an integer address:  *)
(* 0 is nullptr, and a leaf keeps its primitive's index in the bits of     *)
(* children.second, as getIndex reads it.                                  *)
(***************************************************************************)
EXTENDS Integers, Sequences, FiniteSets

\* Bounds of the model.
MaxN == 3
MaxCoord == 2
MaxCalls == 4

VARIABLES
    bounding_boxes,  \* the constructor's input, original index -> Box
    leaf_nodes,      \* _leaf_nodes, slot -> Node
    internal_nodes,  \* _internal_nodes, slot -> Node
    ndebug,          \* TRUE when the build compiles assert() away
    cuda_arch,       \* TRUE when the build defines __CUDA_ARCH__
    pc,              \* where the current query call stands
    kind,            \* "none", "spatial" or "nearest"
    predicate,       \* the spatial predicate of the call
    geometry,        \* the query point of a nearest predicate
    k,               \* the nearest predicate's _k
    buffer,          \* the caller's buffer of (index, distance) pairs
    heap_size,       \* heap.size(), the heap lives in buffer[1..heap_size]
    stack,           \* the traversal stack, top at the end
    radius,          \* the pruning radius of nearestQuery
    count,           \* spatialQuery's count
    inserted,        \* the calls made to insert, in order
    result,          \* the value the call returned
    pops             \* nodes popped off the stack by the current call

\* The constructor at work
VARIABLES
    phase,               \* where the constructor stands
    morton_indices,      \* the constructor's morton_indices
    permutation_indices, \* the constructor's permutation_indices
    flags,               \* propagation: the arrival counter of each internal node
    workers,             \* propagation: leaf slot -> where its worker stands
    phases_run,          \* the steps the constructor has run, in order
    box_writes,          \* node -> the <<phase, worker>> of each write of its box
    child_writes,        \* node -> the phase of each write of its child references
    arrivals,            \* internal node -> the workers that arrived, in order
    read_unwritten       \* TRUE once a union read a box nothing had written

\* Another worker's query call
VARIABLES
    parked               \* the call of another worker, between two of its steps

\* CopyOperator
VARIABLES
    d_source,        \* "null", or what is_field_supported answers for the source
    d_target,        \* "null", or what is_field_supported answers for the target
    d_global_data,   \* d_global_data
    d_mapped,        \* d_mapped
    d_active_source, \* d_active_source
    d_active_target, \* d_active_target
    d_export,        \* "null" until point_map has made the exporter
    d_target_vector, \* "null" until point_map has made the target vector
    operator_pc,     \* where the operator stands
    calls,           \* the calls made on the operator and how each ended, in order
    exports          \* the calls made to doExport

copy_operator == <<d_source, d_target, d_global_data, d_mapped, d_active_source,
                   d_active_target, d_export, d_target_vector, operator_pc, calls,
                   exports>>

construction == <<phase, morton_indices, permutation_indices, flags, workers,
                  phases_run, box_writes, child_writes, arrivals, read_unwritten>>

query == <<pc, kind, predicate, geometry, k, buffer, heap_size, stack, radius,
           count, inserted, result, pops>>

vars == <<bounding_boxes, leaf_nodes, internal_nodes, ndebug, cuda_arch, pc, kind,
          predicate, geometry, k, buffer, heap_size, stack, radius, count,
          inserted, result, pops, construction, parked, copy_operator>>

\* what a step of a query call leaves alone
hierarchy == <<bounding_boxes, leaf_nodes, internal_nodes, ndebug, cuda_arch,
               construction, parked, copy_operator>>

\* no CopyOperator has been asked for
NoCopyOperator ==
    /\ d_source = "null"
    /\ d_target = "null"
    /\ d_global_data = FALSE
    /\ d_mapped = FALSE
    /\ d_active_source = FALSE
    /\ d_active_target = FALSE
    /\ d_export = "null"
    /\ d_target_vector = "null"
    /\ operator_pc = "none"
    /\ calls = <<>>
    /\ exports = 0

----------------------------------------------------------------------------
\* Geometry

Null == 0

Coords == 0..MaxCoord

Sq(x) == x * x

\* KokkosHelpers::ArithTraits<double>::infinity(): above every distance
Infinity == Sq(MaxCoord + 100)

Max(a, b) == IF a < b THEN b ELSE a
Min(a, b) == IF a < b THEN a ELSE b

\* a point is the tuple of its coordinates, a box its two corners
Box(lo, hi) == [min |-> lo, max |-> hi]

\* the points on the axis the queries are explored on
Points == {<<c>> : c \in Coords}

\* the boxes of the primitives handed to the constructor
PrimitiveBoxes == {Box(p, p) : p \in Points}

\* the boxes a spatial predicate may carry
QueryBoxes == {b \in [min : Points, max : Points] : b.min[1] <= b.max[1]}

RECURSIVE SumSq(_, _)
SumSq(v, n) == IF n = 0 THEN 0 ELSE Sq(v[n]) + SumSq(v, n - 1)

\* how far the point lies outside the box along one axis
AxisGap(point, box, a) == Max(0, Max(box.min[a] - point[a], point[a] - box.max[a]))

\* the distance to the middle of the box
distance_ToCentre(point, box) ==
    SumSq([a \in DOMAIN point |-> point[a] - ((box.min[a] + box.max[a]) \div 2)],
          Len(point))

\* distance( point, box ): 0 inside, else the Euclidean distance to the
\* nearest point of the box; the value is the distance's square
distance(point, box) ==
    SumSq([a \in DOMAIN point |-> AxisGap(point, box, a)], Len(point))

\* expand leaving the box as it was
expand_Unchanged(a, b) == a

intersects(a, b) ==
    \A x \in DOMAIN a.min : a.min[x] <= b.max[x] /\ b.min[x] <= a.max[x]

expand(a, b) ==
    Box([x \in DOMAIN a.min |-> Min(a.min[x], b.min[x])],
        [x \in DOMAIN a.max |-> Max(a.max[x], b.max[x])])

\* the box a lies in the box b
Within(a, b) ==
    \A x \in DOMAIN a.min : b.min[x] <= a.min[x] /\ a.max[x] <= b.max[x]

----------------------------------------------------------------------------
\* Construction of the hierarchy

InternalAddr(i) == i + 1

LeafAddr(n, j) == n + j

\* twice the centroid along the axis: the key the primitives are sorted by
mortonCode(box) == box.min[1] + box.max[1]

assignMortonCodes(boxes) == [i \in DOMAIN boxes |-> mortonCode(boxes[i])]

\* the permutation that sorts the codes, equal codes in index order
sortObjects(codes) ==
    CHOOSE p \in [DOMAIN codes -> DOMAIN codes] :
        \A i \in DOMAIN codes : \A j \in DOMAIN codes :
            i < j => \/ codes[p[i]] < codes[p[j]]
                     \/ codes[p[i]] = codes[p[j]] /\ p[i] < p[j]

initializeLeafNodes(indices, boxes) ==
    [i \in DOMAIN boxes |->
        [bounding_box |-> boxes[indices[i]],
         first |-> Null,
         second |-> indices[i]]]

\* The binary radix trees over the leaf slots a..b: a set of <<a, b, split>>,
\* one per internal node, the node covering a..b with children a..split and
\* split+1..b.
RECURSIVE Trees(_, _)
Trees(a, b) ==
    IF a >= b THEN {{}}
    ELSE UNION {{{<<a, b, s>>} \cup l \cup r : l \in Trees(a, s), r \in Trees(s + 1, b)} :
                s \in a..(b - 1)}

\* the slot of the internal node t: the root is slot 0, a left child sits at
\* the last leaf of its range and a right child at the first
NodeIndex(t, tree, n) ==
    IF t[1] = 0 /\ t[2] = n - 1 THEN 0
    ELSE IF \E u \in tree : u[1] = t[1] /\ u[3] = t[2] /\ u[2] > t[2] THEN t[2]
    ELSE t[1]

\* the child references of every internal node
generateHierarchy(tree, n) ==
    [i \in 0..(n - 2) |->
        LET t == CHOOSE u \in tree : NodeIndex(u, tree, n) = i
            s == t[3]
        IN  [first |-> IF s = t[1] THEN LeafAddr(n, s) ELSE InternalAddr(s),
             second |-> IF s + 1 = t[2] THEN LeafAddr(n, s + 1) ELSE InternalAddr(s + 1)]]

\* the box of the node at addr, the union of its children's boxes
RECURSIVE SubtreeBox(_, _, _)
SubtreeBox(topology, leaves, addr) ==
    LET n == Cardinality(DOMAIN leaves)
    IN  IF addr >= n THEN leaves[addr - n].bounding_box
        ELSE expand(SubtreeBox(topology, leaves, topology[addr - 1].first),
                    SubtreeBox(topology, leaves, topology[addr - 1].second))

calculateBoundingBoxes(topology, leaves) ==
    [i \in DOMAIN topology |->
        [bounding_box |-> SubtreeBox(topology, leaves, InternalAddr(i)),
         first |-> topology[i].first,
         second |-> topology[i].second]]

\* BoundingVolumeHierarchy's constructor
Construct(boxes, tree) ==
    LET n == Cardinality(DOMAIN boxes)
        indices == sortObjects(assignMortonCodes(boxes))
        leaves == initializeLeafNodes(indices, boxes)
    IN  /\ bounding_boxes = boxes
        /\ leaf_nodes = leaves
        /\ internal_nodes = IF n > 1
                               THEN calculateBoundingBoxes(generateHierarchy(tree, n), leaves)
                               ELSE <<>>

size == Cardinality(DOMAIN leaf_nodes)

empty == size = 0

\* the Node a pointer refers to
Node(addr) == IF addr < size THEN internal_nodes[addr - 1] ELSE leaf_nodes[addr - size]

----------------------------------------------------------------------------
\* TreeTraversal

\* isLeaf asking for both children to be null
isLeaf_BothNull(node) == Node(node).first = Null /\ Node(node).second = Null

isLeaf(node) == Node(node).first = Null

\* getIndex reporting the leaf's slot instead of the index it stores
getIndex_Slot(leaf) == leaf - size

getIndex(leaf) == Node(leaf).second

\* getRoot answering the first leaf whatever the number of leaves
getRoot_FirstLeaf == IF empty THEN Null ELSE LeafAddr(size, 0)

getRoot ==
    IF empty THEN Null
    ELSE IF size > 1 THEN InternalAddr(0) ELSE LeafAddr(size, 0)

\* The spatial predicates of the calls: one true of every node, one false of
\* every node, and "intersects the box Q".
Predicates ==
    {[tag |-> t, box |-> Box(<<0>>, <<0>>)] : t \in {"true", "false"}}
        \cup {[tag |-> "intersects", box |-> q] : q \in QueryBoxes}

NoPredicate == [tag |-> "none", box |-> Box(<<0>>, <<0>>)]

\* the predicate's test of a box
Satisfies(pred, box) ==
    CASE pred.tag = "true" -> TRUE
      [] pred.tag = "intersects" -> intersects(pred.box, box)
      [] OTHER -> FALSE

\* predicate( node )
Holds(pred, node) == Satisfies(pred, Node(node).bounding_box)

\* the lambda queryDispatch hands to nearestQuery as distance
NodeDistance(g, node) == distance(g, Node(node).bounding_box)

----------------------------------------------------------------------------
\* PriorityQueue over the caller's buffer: a binary max-heap on the distance,
\* the farthest pair in slot 1.

\* the content of a buffer slot nothing has written
Unset == <<0 - 1, 0 - 1>>

CompareDistance(lhs, rhs) == lhs[2] < rhs[2]

Swap(h, i, j) == [h EXCEPT ![i] = h[j], ![j] = h[i]]

RECURSIVE SiftUp(_, _)
SiftUp(h, i) ==
    IF i = 1 THEN h
    ELSE LET parent == i \div 2
         IN  IF CompareDistance(h[parent], h[i])
             THEN SiftUp(Swap(h, parent, i), parent)
             ELSE h

RECURSIVE SiftDown(_, _, _)
SiftDown(h, i, n) ==
    LET l == 2 * i
        r == 2 * i + 1
        a == IF l <= n /\ CompareDistance(h[i], h[l]) THEN l ELSE i
        largest == IF r <= n /\ CompareDistance(h[a], h[r]) THEN r ELSE a
    IN  IF largest = i THEN h ELSE SiftDown(Swap(h, i, largest), largest, n)

\* heap.push( x ) on a heap of n elements
HeapPush(h, n, x) == SiftUp([h EXCEPT ![n + 1] = x], n + 1)

\* heap.popPush( x ): replace the top and restore the heap
HeapPopPush(h, n, x) == SiftDown([h EXCEPT ![1] = x], 1, n)

\* sortHeap( first, last, comp ): ascending, by moving the top behind the heap
RECURSIVE sortHeap(_, _)
sortHeap(h, n) ==
    IF n <= 1 THEN h
    ELSE sortHeap(SiftDown(Swap(h, 1, n), 1, n - 1), n - 1)

----------------------------------------------------------------------------
\* The state between two calls

Idle ==
    /\ pc = "idle"
    /\ kind = "none"
    /\ predicate = NoPredicate
    /\ geometry = <<0>>
    /\ k = 0
    /\ buffer = <<>>
    /\ heap_size = 0
    /\ stack = <<>>
    /\ radius = Infinity
    /\ count = 0
    /\ inserted = <<>>
    /\ result = 0
    /\ pops = 0

\* the call of the worker at work: its arguments and its locals
CurrentCall ==
    [pc |-> pc, kind |-> kind, predicate |-> predicate, geometry |-> geometry,
     k |-> k, buffer |-> buffer, heap_size |-> heap_size, stack |-> stack,
     radius |-> radius, count |-> count, inserted |-> inserted,
     result |-> result, pops |-> pops]

\* a worker that has no call under way
IdleCall ==
    [pc |-> "idle", kind |-> "none", predicate |-> NoPredicate, geometry |-> <<0>>,
     k |-> 0, buffer |-> <<>>, heap_size |-> 0, stack |-> <<>>,
     radius |-> Infinity, count |-> 0, inserted |-> <<>>,
     result |-> 0, pops |-> 0]

\* the constructor has returned and its local views are gone
Constructed ==
    /\ phase = "done"
    /\ morton_indices = <<>>
    /\ permutation_indices = <<>>
    /\ flags = <<>>
    /\ workers = <<>>
    /\ phases_run = <<>>
    /\ box_writes = <<>>
    /\ child_writes = <<>>
    /\ arrivals = <<>>
    /\ read_unwritten = FALSE

Init ==
    /\ \E n \in 0..MaxN :
        \E boxes \in [0..(n - 1) -> PrimitiveBoxes] :
            \E tree \in Trees(0, n - 1) : Construct(boxes, tree)
    /\ ndebug \in BOOLEAN
    /\ cuda_arch \in BOOLEAN
    /\ Constructed
    /\ Idle
    /\ parked = IdleCall
    /\ NoCopyOperator

----------------------------------------------------------------------------
\* spatialQuery

Top(s) == s[Len(s)]

\* pop leaving the top where it is
Pop_Keep(s) == s

Pop(s) == SubSeq(s, 1, Len(s) - 1)

\* the loop's body with "else if" for the second child: one child at most
ChildrenToPush_ElseIf(pred, node) ==
    IF Holds(pred, Node(node).first) THEN <<Node(node).first>>
    ELSE IF Holds(pred, Node(node).second) THEN <<Node(node).second>>
    ELSE <<>>

\* the loop's body without the test of the predicate
ChildrenToPush_Untested(pred, node) == <<Node(node).first, Node(node).second>>

\* the children of an internal node the loop pushes, the second on top
ChildrenToPush(pred, node) ==
    (IF Holds(pred, Node(node).first) THEN <<Node(node).first>> ELSE <<>>)
        \o (IF Holds(pred, Node(node).second) THEN <<Node(node).second>> ELSE <<>>)

\* the call up to the loop
SpatialCall ==
    /\ pc = "idle"
    /\ \E pred \in Predicates :
        /\ kind' = "spatial"
        /\ predicate' = pred
        /\ IF empty
           THEN /\ result' = 0
                /\ pc' = "returned"
                /\ UNCHANGED <<stack, inserted>>
           ELSE IF size = 1
           THEN LET leaf == getRoot
                IN  /\ IF Holds(pred, leaf)
                       THEN /\ inserted' = <<getIndex(leaf)>>
                            /\ result' = 1
                       ELSE /\ inserted' = <<>>
                            /\ result' = 0
                    /\ pc' = "returned"
                    /\ UNCHANGED stack
           ELSE /\ stack' = <<getRoot>>
                /\ pc' = "spatial"
                /\ UNCHANGED <<inserted, result>>
    /\ count' = 0
    /\ UNCHANGED <<hierarchy, geometry, k, buffer, heap_size, radius, pops>>

\* one iteration of the loop
SpatialStep ==
    /\ pc = "spatial"
    /\ stack # <<>>
    /\ LET node == Top(stack)
       IN  IF isLeaf(node)
           THEN /\ inserted' = Append(inserted, getIndex(node))
                /\ count' = count + 1
                /\ stack' = Pop(stack)
           ELSE /\ stack' = Pop(stack) \o ChildrenToPush(predicate, node)
                /\ UNCHANGED <<inserted, count>>
    /\ pops' = pops + 1
    /\ UNCHANGED <<hierarchy, pc, kind, predicate, geometry, k, buffer,
                   heap_size, radius, result>>

\* the loop's exit
SpatialReturn ==
    /\ pc = "spatial"
    /\ stack = <<>>
    /\ result' = count
    /\ pc' = "returned"
    /\ UNCHANGED <<hierarchy, kind, predicate, geometry, k, buffer, heap_size,
                   stack, radius, count, inserted, pops>>

----------------------------------------------------------------------------
\* nearestQuery

\* the values of k a caller asks for
Ks == 0..(MaxN + 1)

\* the sizes of the buffer a caller passes with k: none, k slots, one too many
BufferSizes(kk) == {0, kk, kk + 1}

\* the first return without the test of the hierarchy
NearestEarlyReturn_KOnly(kk) == kk < 1

\* the first return without the test of k
NearestEarlyReturn_EmptyOnly(kk) == empty

\* the guard of the first return
NearestEarlyReturn(kk) == empty \/ kk < 1

\* the assertion letting a larger buffer through
BufferMatchesK_AtLeast(kk, buffer_size) == kk <= buffer_size

\* the condition of assert( k == buffer.size() )
BufferMatchesK(kk, buffer_size) == kk = buffer_size

\* the loop without pruning
WithinRadius_Always(node_distance) == TRUE

\* the test that lets a popped node through
WithinRadius(node_distance) == node_distance < radius

\* the test that pushes a leaf instead of replacing the top
HeapHasRoom == heap_size < k

\* the radius tightened after every push
HeapIsFull_Always(n) == TRUE

\* the test that tightens the radius after a push, n the heap's new size
HeapIsFull(n) == n = k

\* the final loop without the call of sortHeap
SortedResults_Unsorted(h, n) == h

\* the heap as the final loop reports it
SortedResults(h, n) == sortHeap(h, n)

\* the call up to the loop
NearestCallWith(g, kk, buffer_size) ==
    /\ pc = "idle"
    /\ kind' = "nearest"
    /\ geometry' = g
    /\ k' = kk
    /\ buffer' = [i \in 1..buffer_size |-> Unset]
    /\ IF NearestEarlyReturn(kk)
       THEN /\ result' = 0
            /\ pc' = "returned"
            /\ UNCHANGED <<stack, inserted>>
       ELSE IF size = 1
       THEN LET leaf == getRoot
                leaf_index == getIndex(leaf)
                leaf_distance == NodeDistance(g, leaf)
            IN  /\ inserted' = <<<<leaf_index, leaf_distance>>>>
                /\ result' = 1
                /\ pc' = "returned"
                /\ UNCHANGED stack
       ELSE IF ~ndebug /\ ~BufferMatchesK(kk, buffer_size)
       THEN \* assert( k == buffer.size() ) fails
            /\ pc' = "aborted"
            /\ UNCHANGED <<stack, inserted, result>>
       ELSE /\ stack' = <<<<getRoot, 0>>>>
            /\ pc' = "nearest"
            /\ UNCHANGED <<inserted, result>>
    /\ radius' = Infinity
    /\ heap_size' = 0
    /\ UNCHANGED <<hierarchy, predicate, count, pops>>

\* a call with any query point, any k and a buffer that matches k or not
NearestCall ==
    \E g \in Points : \E kk \in Ks : \E buffer_size \in BufferSizes(kk) :
        NearestCallWith(g, kk, buffer_size)

\* the left child ends on top of the stack also when the distances are equal
LeftIsNearer_OrEqual(left_child_distance, right_child_distance) ==
    left_child_distance <= right_child_distance

\* the test that puts the left child on top of the stack
LeftIsNearer(left_child_distance, right_child_distance) ==
    left_child_distance < right_child_distance

\* one iteration of the loop
NearestStep ==
    /\ pc = "nearest"
    /\ stack # <<>>
    /\ LET node == Top(stack)[1]
           node_distance == Top(stack)[2]
       IN  IF ~WithinRadius(node_distance)
           THEN /\ stack' = Pop(stack)
                /\ UNCHANGED <<pc, buffer, heap_size, radius, result>>
           ELSE IF isLeaf(node)
           THEN LET leaf_index == getIndex(node)
                    leaf_distance == node_distance
                IN  /\ stack' = Pop(stack)
                    /\ IF HeapHasRoom
                       THEN IF heap_size < Len(buffer)
                            THEN /\ buffer' = HeapPush(buffer, heap_size, <<leaf_index, leaf_distance>>)
                                 /\ heap_size' = heap_size + 1
                                 /\ radius' = IF HeapIsFull(heap_size + 1) THEN buffer'[1][2] ELSE radius
                                 /\ UNCHANGED <<pc, result>>
                            ELSE \* the push writes behind the end of the buffer
                                 /\ pc' = "undefined"
                                 /\ result' \in 0..k
                                 /\ UNCHANGED <<buffer, heap_size, radius>>
                       ELSE /\ buffer' = HeapPopPush(buffer, heap_size, <<leaf_index, leaf_distance>>)
                            /\ radius' = buffer'[1][2]
                            /\ UNCHANGED <<pc, heap_size, result>>
           ELSE LET left_child == Node(node).first
                    left_child_distance == NodeDistance(geometry, left_child)
                    right_child == Node(node).second
                    right_child_distance == NodeDistance(geometry, right_child)
                    left == <<left_child, left_child_distance>>
                    right == <<right_child, right_child_distance>>
                IN  /\ IF LeftIsNearer(left_child_distance, right_child_distance)
                       THEN stack' = Pop(stack)
                                \o (IF cuda_arch /\ ~(right_child_distance < radius)
                                    THEN <<>> ELSE <<right>>)
                                \o <<left>>
                       ELSE stack' = Pop(stack)
                                \o (IF cuda_arch /\ ~(left_child_distance < radius)
                                    THEN <<>> ELSE <<left>>)
                                \o <<right>>
                    /\ UNCHANGED <<pc, buffer, heap_size, radius, result>>
    /\ pops' = pops + 1
    /\ UNCHANGED <<hierarchy, kind, predicate, geometry, k, count, inserted>>

\* the loop's exit: sort the heap and report it
NearestReturn ==
    /\ pc = "nearest"
    /\ stack = <<>>
    /\ buffer' = SortedResults(buffer, heap_size)
    /\ inserted' = [i \in 1..heap_size |-> buffer'[i]]
    /\ result' = heap_size
    /\ pc' = "returned"
    /\ UNCHANGED <<hierarchy, kind, predicate, geometry, k, heap_size, stack,
                   radius, count, pops>>

\* the caller is done with the call's results
Reset ==
    /\ pc \in {"returned", "aborted", "undefined"}
    /\ pc' = "idle"
    /\ kind' = "none"
    /\ predicate' = NoPredicate
    /\ geometry' = <<0>>
    /\ k' = 0
    /\ buffer' = <<>>
    /\ heap_size' = 0
    /\ stack' = <<>>
    /\ radius' = Infinity
    /\ count' = 0
    /\ inserted' = <<>>
    /\ result' = 0
    /\ pops' = 0
    /\ UNCHANGED hierarchy

Next ==
    \/ SpatialCall
    \/ SpatialStep
    \/ SpatialReturn
    \/ NearestCall
    \/ NearestStep
    \/ NearestReturn
    \/ Reset

Spec == Init /\ [][Next]_vars

\* the steps of a call once it is in its loop
QueryLoop == SpatialStep \/ SpatialReturn \/ NearestStep \/ NearestReturn

\* a call runs to completion without yielding: a step of its loop that can be
\* taken is taken
SpecFair == Init /\ [][Next]_vars /\ WF_vars(QueryLoop)

----------------------------------------------------------------------------
\* Two workers, each with a query call on the same hierarchy, their steps
\* interleaved: the call of one is at work, the call of the other is parked.

\* the worker at work gives way to the other, both inserting into one target
Switch_SharedTarget ==
    /\ pc' = parked.pc
    /\ kind' = parked.kind
    /\ predicate' = parked.predicate
    /\ geometry' = parked.geometry
    /\ k' = parked.k
    /\ buffer' = parked.buffer
    /\ heap_size' = parked.heap_size
    /\ stack' = parked.stack
    /\ radius' = parked.radius
    /\ count' = parked.count
    /\ inserted' = inserted
    /\ result' = parked.result
    /\ pops' = parked.pops
    /\ parked' = CurrentCall
    /\ UNCHANGED <<bounding_boxes, leaf_nodes, internal_nodes, ndebug, cuda_arch,
                   construction, copy_operator>>

\* the worker at work gives way to the other
Switch ==
    /\ pc' = parked.pc
    /\ kind' = parked.kind
    /\ predicate' = parked.predicate
    /\ geometry' = parked.geometry
    /\ k' = parked.k
    /\ buffer' = parked.buffer
    /\ heap_size' = parked.heap_size
    /\ stack' = parked.stack
    /\ radius' = parked.radius
    /\ count' = parked.count
    /\ inserted' = parked.inserted
    /\ result' = parked.result
    /\ pops' = parked.pops
    /\ parked' = CurrentCall
    /\ UNCHANGED <<bounding_boxes, leaf_nodes, internal_nodes, ndebug, cuda_arch,
                   construction, copy_operator>>

\* the two workers have a call under way
BothCalled == pc # "idle" /\ parked.pc # "idle"

\* the two calls were given the same arguments
SameCall ==
    /\ kind = parked.kind
    /\ predicate = parked.predicate
    /\ geometry = parked.geometry
    /\ k = parked.k
    /\ Len(buffer) = Len(parked.buffer)

\* a step of the call at work; a worker that calls while the other has a call
\* under way calls with the same arguments
QueryStep == Next /\ (BothCalled' => SameCall')

NextPair ==
    \/ QueryStep
    \/ Switch

SpecPair == Init /\ [][NextPair]_vars

----------------------------------------------------------------------------
\* BoundingVolumeHierarchy's constructor, step by step.  Each call of
\* TreeConstruction is a step; the propagation of the boxes is one worker per
\* leaf, interleaved.

\* a box whose min lies above its max
MalformedBoxes == {Box(<<1>>, <<0>>)}

\* the boxes a caller may hand to the constructor
BuildBoxes == PrimitiveBoxes \cup MalformedBoxes

Malformed(box) == \E x \in DOMAIN box.min : box.min[x] > box.max[x]

\* a node of a view allocated without initializing
UninitNode == [bounding_box |-> Box(<<>>, <<>>), first |-> Null, second |-> Null]

\* one internal node per box
InternalCount_Extent(n) == n

\* the extent of _internal_nodes for n boxes
InternalCount(n) == IF n > 0 THEN n - 1 ELSE 0

\* the writer of a box outside the propagation
NoWorker == 0 - 1

\* the union of the boxes 0..n-1
RECURSIVE calculateBoundingBoxOfTheScene(_, _)
calculateBoundingBoxOfTheScene(boxes, n) ==
    IF n = 1 THEN boxes[0]
    ELSE expand(calculateBoundingBoxOfTheScene(boxes, n - 1), boxes[n - 1])

\* the internal node whose child the node is
Parent(node) ==
    InternalAddr(CHOOSE i \in DOMAIN internal_nodes :
                    internal_nodes[i].first = node \/ internal_nodes[i].second = node)

\* what a read of the box of the node at addr may yield: the box written
\* there, or anything when nothing was written yet
ReadBox(addr) ==
    IF box_writes[addr] = <<>> THEN PrimitiveBoxes ELSE {Node(addr).bounding_box}

\* no arrival stops a worker
FirstArrival_Never(old) == FALSE

\* the second arrival stops the worker, the first does not
FirstArrival_Second(old) == old = 1

\* the test of the arrival counter's old value that stops a worker
FirstArrival(old) == old = 0

InitBuild ==
    /\ \E n \in 0..MaxN : bounding_boxes \in [0..(n - 1) -> BuildBoxes]
    /\ leaf_nodes = <<>>
    /\ internal_nodes = <<>>
    /\ ndebug = FALSE
    /\ cuda_arch = FALSE
    /\ phase = "start"
    /\ morton_indices = <<>>
    /\ permutation_indices = <<>>
    /\ flags = <<>>
    /\ workers = <<>>
    /\ phases_run = <<>>
    /\ box_writes = <<>>
    /\ child_writes = <<>>
    /\ arrivals = <<>>
    /\ read_unwritten = FALSE
    /\ Idle
    /\ parked = IdleCall
    /\ NoCopyOperator

\* the member initializers and the two early returns' tests
Allocate ==
    /\ phase = "start"
    /\ LET n == Cardinality(DOMAIN bounding_boxes)
       IN  /\ leaf_nodes' = [i \in 0..(n - 1) |-> UninitNode]
           /\ internal_nodes' = [i \in 0..(InternalCount(n) - 1) |-> UninitNode]
           /\ box_writes' = [a \in 1..(n + InternalCount(n)) |-> <<>>]
           /\ child_writes' = [a \in 1..(n + InternalCount(n)) |-> <<>>]
           /\ phase' = IF n = 0 THEN "done" ELSE IF n = 1 THEN "single" ELSE "scene"
    /\ UNCHANGED <<bounding_boxes, ndebug, cuda_arch, morton_indices,
                   permutation_indices, flags, workers, phases_run, arrivals,
                   read_unwritten, query, parked, copy_operator>>

\* size() == 1: the leaf is initialized from a permutation of one zero
InitializeSingleLeaf ==
    /\ phase = "single"
    /\ leaf_nodes' = initializeLeafNodes([i \in 0..0 |-> 0], bounding_boxes)
    /\ box_writes' = [a \in DOMAIN box_writes |->
                        Append(box_writes[a], <<"initializeLeafNodes", NoWorker>>)]
    /\ child_writes' = [a \in DOMAIN child_writes |->
                          Append(child_writes[a], "initializeLeafNodes")]
    /\ phases_run' = Append(phases_run, "initializeLeafNodes")
    /\ phase' = "done"
    /\ UNCHANGED <<bounding_boxes, internal_nodes, ndebug, cuda_arch,
                   morton_indices, permutation_indices, flags, workers, arrivals,
                   read_unwritten, query, parked, copy_operator>>

\* the scene's box is computed and kept out of the nodes
SceneBox_Local ==
    /\ phase = "scene"
    /\ phases_run' = Append(phases_run, "calculateBoundingBoxOfTheScene")
    /\ phase' = "morton"
    /\ UNCHANGED <<bounding_boxes, leaf_nodes, internal_nodes, ndebug, cuda_arch,
                   morton_indices, permutation_indices, flags, workers, box_writes,
                   child_writes, arrivals, read_unwritten, query, parked, copy_operator>>

\* the scene's box is written into internal node 0
SceneBox ==
    /\ phase = "scene"
    /\ internal_nodes' =
           [internal_nodes EXCEPT ![0].bounding_box =
               calculateBoundingBoxOfTheScene(bounding_boxes, size)]
    /\ box_writes' = [box_writes EXCEPT ![InternalAddr(0)] =
                         Append(@, <<"calculateBoundingBoxOfTheScene", NoWorker>>)]
    /\ phases_run' = Append(phases_run, "calculateBoundingBoxOfTheScene")
    /\ phase' = "morton"
    /\ UNCHANGED <<bounding_boxes, leaf_nodes, ndebug, cuda_arch, morton_indices,
                   permutation_indices, flags, workers, child_writes, arrivals,
                   read_unwritten, query, parked, copy_operator>>

AssignMortonCodes ==
    /\ phase = "morton"
    /\ morton_indices' = assignMortonCodes(bounding_boxes)
    /\ phases_run' = Append(phases_run, "assignMortonCodes")
    /\ phase' = "sort"
    /\ UNCHANGED <<bounding_boxes, leaf_nodes, internal_nodes, ndebug, cuda_arch,
                   permutation_indices, flags, workers, box_writes, child_writes,
                   arrivals, read_unwritten, query, parked, copy_operator>>

\* the codes are sorted in place and the permutation is returned
SortObjects ==
    /\ phase = "sort"
    /\ permutation_indices' = sortObjects(morton_indices)
    /\ morton_indices' = [i \in DOMAIN morton_indices |->
                            morton_indices[permutation_indices'[i]]]
    /\ phases_run' = Append(phases_run, "sortObjects")
    /\ phase' = "leaves"
    /\ UNCHANGED <<bounding_boxes, leaf_nodes, internal_nodes, ndebug, cuda_arch,
                   flags, workers, box_writes, child_writes, arrivals,
                   read_unwritten, query, parked, copy_operator>>

InitializeLeafNodes ==
    /\ phase = "leaves"
    /\ leaf_nodes' = initializeLeafNodes(permutation_indices, bounding_boxes)
    /\ box_writes' = [a \in DOMAIN box_writes |->
                        IF a >= size
                        THEN Append(box_writes[a], <<"initializeLeafNodes", NoWorker>>)
                        ELSE box_writes[a]]
    /\ child_writes' = [a \in DOMAIN child_writes |->
                          IF a >= size
                          THEN Append(child_writes[a], "initializeLeafNodes")
                          ELSE child_writes[a]]
    /\ phases_run' = Append(phases_run, "initializeLeafNodes")
    /\ phase' = "hierarchy"
    /\ UNCHANGED <<bounding_boxes, internal_nodes, ndebug, cuda_arch,
                   morton_indices, permutation_indices, flags, workers, arrivals,
                   read_unwritten, query, parked, copy_operator>>

\* the child references of the internal nodes: some radix tree over the leaves
GenerateHierarchy ==
    /\ phase = "hierarchy"
    /\ \E tree \in Trees(0, size - 1) :
        LET topology == generateHierarchy(tree, size)
        IN  internal_nodes' =
                [i \in DOMAIN internal_nodes |->
                    [bounding_box |-> internal_nodes[i].bounding_box,
                     first |-> topology[i].first,
                     second |-> topology[i].second]]
    /\ child_writes' = [a \in DOMAIN child_writes |->
                          IF a < size
                          THEN Append(child_writes[a], "generateHierarchy")
                          ELSE child_writes[a]]
    /\ phases_run' = Append(phases_run, "generateHierarchy")
    /\ phase' = "boxes"
    /\ UNCHANGED <<bounding_boxes, leaf_nodes, ndebug, cuda_arch, morton_indices,
                   permutation_indices, flags, workers, box_writes, arrivals,
                   read_unwritten, query, parked, copy_operator>>

\* calculateBoundingBoxes starts a worker at every leaf
StartPropagation ==
    /\ phase = "boxes"
    /\ flags' = [i \in DOMAIN internal_nodes |-> 0]
    /\ arrivals' = [i \in DOMAIN internal_nodes |-> <<>>]
    /\ workers' = [j \in DOMAIN leaf_nodes |->
                     [node |-> Parent(LeafAddr(size, j)), at |-> "arrive"]]
    /\ phases_run' = Append(phases_run, "calculateBoundingBoxes")
    /\ phase' = "propagate"
    /\ UNCHANGED <<bounding_boxes, leaf_nodes, internal_nodes, ndebug, cuda_arch,
                   morton_indices, permutation_indices, box_writes, child_writes,
                   read_unwritten, query, parked, copy_operator>>

\* a worker increments the arrival counter of its node: the first to arrive
\* stops, the second goes on to the union
Arrive(w) ==
    /\ phase = "propagate"
    /\ workers[w].at = "arrive"
    /\ LET i == workers[w].node - 1
       IN  /\ flags' = [flags EXCEPT ![i] = @ + 1]
           /\ arrivals' = [arrivals EXCEPT ![i] = Append(@, w)]
           /\ workers' = [workers EXCEPT ![w].at =
                             IF FirstArrival(flags[i]) THEN "stopped" ELSE "union"]
    /\ UNCHANGED <<bounding_boxes, leaf_nodes, internal_nodes, ndebug, cuda_arch,
                   phase, morton_indices, permutation_indices, phases_run,
                   box_writes, child_writes, read_unwritten, query, parked, copy_operator>>

\* a worker writes the union of the children's boxes into its node and moves
\* to the parent, or stops at the root
Union(w) ==
    /\ phase = "propagate"
    /\ workers[w].at = "union"
    /\ LET node == workers[w].node
           first == Node(node).first
           second == Node(node).second
       IN  /\ \E a \in ReadBox(first) : \E b \in ReadBox(second) :
                  internal_nodes' =
                      [internal_nodes EXCEPT ![node - 1].bounding_box = expand(a, b)]
           /\ box_writes' = [box_writes EXCEPT ![node] =
                                Append(@, <<"calculateBoundingBoxes", w>>)]
           /\ read_unwritten' = (\/ read_unwritten
                                 \/ box_writes[first] = <<>>
                                 \/ box_writes[second] = <<>>)
           /\ workers' = [workers EXCEPT ![w] =
                             IF node = getRoot
                             THEN [node |-> node, at |-> "stopped"]
                             ELSE [node |-> Parent(node), at |-> "arrive"]]
    /\ UNCHANGED <<bounding_boxes, leaf_nodes, ndebug, cuda_arch, phase,
                   morton_indices, permutation_indices, flags, phases_run,
                   child_writes, arrivals, query, parked, copy_operator>>

ArriveAny == \E w \in DOMAIN workers : Arrive(w)

UnionAny == \E w \in DOMAIN workers : Union(w)

\* every worker has stopped: the constructor returns and its views are gone
FinishPropagation ==
    /\ phase = "propagate"
    /\ \A w \in DOMAIN workers : workers[w].at = "stopped"
    /\ phase' = "done"
    /\ morton_indices' = <<>>
    /\ permutation_indices' = <<>>
    /\ flags' = <<>>
    /\ workers' = <<>>
    /\ UNCHANGED <<bounding_boxes, leaf_nodes, internal_nodes, ndebug, cuda_arch,
                   phases_run, box_writes, child_writes, arrivals, read_unwritten,
                   query, parked, copy_operator>>

NextBuild ==
    \/ Allocate
    \/ InitializeSingleLeaf
    \/ SceneBox
    \/ AssignMortonCodes
    \/ SortObjects
    \/ InitializeLeafNodes
    \/ GenerateHierarchy
    \/ StartPropagation
    \/ ArriveAny
    \/ UnionAny
    \/ FinishPropagation

\* no worker waits for another: a step that can be taken is taken
SpecBuild == InitBuild /\ [][NextBuild]_vars /\ WF_vars(NextBuild)

----------------------------------------------------------------------------
\* What the claims speak of

\* the permutation the constructor sorted the primitives by
permutation == sortObjects(assignMortonCodes(bounding_boxes))

\* the index a call's i-th insert reported
InsertedIndex(i) == IF kind = "nearest" THEN inserted[i][1] ELSE inserted[i]

InsertedIndices == {InsertedIndex(i) : i \in 1..Len(inserted)}

\* every insert reported another index
NoIndexTwice == Cardinality(InsertedIndices) = Len(inserted)

\* the distance of the query point to the primitive a linear scan finds
ScanDistance(j) == distance(geometry, bounding_boxes[j])

\* how many of the call's inserts reported the distance d
ReportedAt(d) == Cardinality({i \in 1..Len(inserted) : inserted[i][2] = d})

\* how many of the m nearest primitives of a linear scan lie at distance d
ScanAt(d, m) ==
    LET nearer == Cardinality({j \in DOMAIN bounding_boxes : ScanDistance(j) < d})
        at == Cardinality({j \in DOMAIN bounding_boxes : ScanDistance(j) = d})
    IN  Min(at, Max(0, m - nearer))

\* every internal node's box contains the boxes of both its children
BoxesNested ==
    \A i \in DOMAIN internal_nodes :
        \A child \in {internal_nodes[i].first, internal_nodes[i].second} :
            Within(Node(child).bounding_box, internal_nodes[i].bounding_box)

\* the leaves below a node
RECURSIVE LeavesBelow(_)
LeavesBelow(node) ==
    IF isLeaf(node) THEN {node}
    ELSE LeavesBelow(Node(node).first) \cup LeavesBelow(Node(node).second)

\* no node is farther from the query point than a leaf below it
DistanceIsLowerBound ==
    \A i \in DOMAIN internal_nodes :
        \A leaf \in LeavesBelow(InternalAddr(i)) :
            NodeDistance(geometry, InternalAddr(i)) <= NodeDistance(geometry, leaf)

\* the call is a nearest query whose buffer has exactly k slots, k >= 1
NearestWithBuffer == kind = "nearest" /\ k >= 1 /\ Len(buffer) = k

----------------------------------------------------------------------------
\* C1: on a hierarchy built from no box, a spatial query with any predicate
\* and a nearest query with any k and any buffer return 0, never call insert,
\* never touch a node and raise no precondition violation.
C1_EmptyHierarchyReturnsZero ==
    (empty /\ pc # "idle") =>
        /\ pc = "returned"
        /\ result = 0
        /\ inserted = <<>>
        /\ stack = <<>>
        /\ pops = 0

\* a nearest query with k >= 1 and a buffer of another size returned on an
\* empty hierarchy
C1_Witness ==
    empty /\ pc = "returned" /\ kind = "nearest" /\ k >= 1 /\ Len(buffer) # k

\* C2: a spatial query whose predicate is true of every node returns N and
\* calls insert once for each original index in 0..N-1, none twice.
C2_AlwaysTrueReportsAll ==
    (kind = "spatial" /\ predicate.tag = "true" /\ pc = "returned") =>
        /\ result = size
        /\ Len(inserted) = size
        /\ InsertedIndices = 0..(size - 1)
        /\ NoIndexTwice

\* an always-true query returned on a hierarchy of three primitives or more
\* whose leaf slots are not in the primitives' order
C2_Witness ==
    /\ kind = "spatial" /\ predicate.tag = "true" /\ pc = "returned"
    /\ size >= 3
    /\ \E i \in DOMAIN leaf_nodes : permutation[i] # i

\* C3: on a hierarchy whose internal boxes contain their children's boxes, a
\* spatial query "intersects Q" calls insert exactly once for each primitive
\* whose box intersects Q and for no other, and returns the number of calls.
C3_IntersectsIsComplete ==
    (kind = "spatial" /\ predicate.tag = "intersects" /\ pc = "returned" /\ BoxesNested) =>
        /\ InsertedIndices = {j \in DOMAIN bounding_boxes : intersects(predicate.box, bounding_boxes[j])}
        /\ NoIndexTwice
        /\ result = Len(inserted)

\* an intersects query returned that reported some primitives, but not all,
\* having pruned an internal node
C3_Witness ==
    /\ kind = "spatial" /\ predicate.tag = "intersects" /\ pc = "returned"
    /\ BoxesNested
    /\ size >= 3
    /\ Len(inserted) >= 1
    /\ Len(inserted) < size
    /\ \E i \in DOMAIN internal_nodes : ~Satisfies(predicate, internal_nodes[i].bounding_box)

\* C4: on a hierarchy of N >= 1 primitives, a nearest query with k >= 1 and a
\* buffer of k slots returns min(k, N) and calls insert that many times.
C4_NearestCount ==
    (NearestWithBuffer /\ size >= 1 /\ pc = "returned") =>
        /\ result = Min(k, size)
        /\ Len(inserted) = Min(k, size)

\* a nearest query with k > N returned on a hierarchy of two primitives or more
C4_Witness ==
    NearestWithBuffer /\ pc = "returned" /\ size >= 2 /\ k > size /\ result = size

\* C5: the pairs a nearest query passes to insert are in non-decreasing order
\* of distance.
C5_ReportedAscending ==
    kind = "nearest" =>
        \A i \in 1..(Len(inserted) - 1) : inserted[i][2] <= inserted[i + 1][2]

\* a nearest query reported three pairs, the last farther than the first
C5_Witness ==
    /\ kind = "nearest" /\ pc = "returned"
    /\ Len(inserted) >= 3
    /\ inserted[1][2] < inserted[Len(inserted)][2]

\* C6: on a hierarchy where a node's distance is a lower bound on the
\* distances of the leaves below it, the distances a nearest query reports are,
\* as a multiset, the min(k, N) smallest distances of a linear scan over the
\* primitives.
C6_NearestMatchesLinearScan ==
    (NearestWithBuffer /\ size >= 1 /\ pc = "returned" /\ DistanceIsLowerBound) =>
        \A d \in {ScanDistance(j) : j \in DOMAIN bounding_boxes}
                    \cup {inserted[i][2] : i \in 1..Len(inserted)} :
            ReportedAt(d) = ScanAt(d, Min(k, size))

\* a nearest query returned fewer pairs than there are primitives, after
\* popping a node it discarded
C6_Witness ==
    /\ NearestWithBuffer /\ pc = "returned" /\ DistanceIsLowerBound
    /\ size >= 3
    /\ k < size
    /\ k >= 2
    /\ \E j \in DOMAIN bounding_boxes : ScanDistance(j) > inserted[Len(inserted)][2]

\* C7: every index passed to insert is the original index of a primitive,
\* the one whose box the reported leaf holds: its box satisfies the spatial
\* predicate, or lies at the reported distance; for N = 1 the index is 0.
C7_OriginalIndexReported ==
    \A i \in 1..Len(inserted) :
        /\ InsertedIndex(i) \in DOMAIN bounding_boxes
        /\ (kind = "spatial" => Satisfies(predicate, bounding_boxes[InsertedIndex(i)]))
        /\ (kind = "nearest" => inserted[i][2] = ScanDistance(InsertedIndex(i)))
        /\ (size = 1 => InsertedIndex(i) = 0)

\* a nearest query reported, from a leaf slot that is not its primitive's
\* index, a primitive that lies at another distance than the primitive whose
\* index is the slot's number
C7_Witness ==
    /\ kind = "nearest" /\ pc = "returned"
    /\ \E i \in 1..Len(inserted) : \E slot \in DOMAIN leaf_nodes :
        /\ permutation[slot] = inserted[i][1]
        /\ slot # inserted[i][1]
        /\ ScanDistance(slot) # inserted[i][2]

\* C8: a nearest query with k < 1 returns 0 on any hierarchy, calls no insert
\* and writes no slot of the buffer.
C8_KBelowOneReturnsZero ==
    (kind = "nearest" /\ k < 1 /\ pc # "idle") =>
        /\ pc = "returned"
        /\ result = 0
        /\ inserted = <<>>
        /\ \A i \in DOMAIN buffer : buffer[i] = Unset
        /\ heap_size = 0
        /\ pops = 0

\* a nearest query with k = 0 and a buffer of one slot returned on a hierarchy
\* of two primitives or more
C8_Witness ==
    kind = "nearest" /\ k < 1 /\ pc = "returned" /\ size >= 2 /\ Len(buffer) = 1

\* C9, as the specification states it: a nearest query with k < 1 and a
\* non-empty buffer is reported as a precondition violation at the call and
\* does not complete as a call that returns a result.
C9_KBelowOneWithBufferIsReported ==
    (kind = "nearest" /\ k < 1 /\ Len(buffer) > 0 /\ pc # "idle") => pc = "aborted"

\* C9, amended: a nearest query with k < 1 and a non-empty buffer is not
\* reported as a precondition violation; the call completes and returns 0
\* without a call of insert.
C9_KBelowOneWithBufferReturnsZero ==
    (kind = "nearest" /\ k < 1 /\ Len(buffer) > 0 /\ pc # "idle") =>
        /\ pc = "returned"
        /\ result = 0
        /\ inserted = <<>>

\* a nearest query with k = 0 and a buffer of one slot returned on a hierarchy
\* of one primitive, in a build that keeps assert()
C9_Witness ==
    /\ kind = "nearest" /\ k < 1 /\ Len(buffer) > 0 /\ pc = "returned"
    /\ size = 1
    /\ ~ndebug

----------------------------------------------------------------------------
\* Claims on the construction and on the root

\* the number of boxes handed to the constructor
N == Cardinality(DOMAIN bounding_boxes)

\* some input box is malformed
MalformedInput == \E i \in DOMAIN bounding_boxes : Malformed(bounding_boxes[i])

\* C11: for N >= 0 boxes the constructor allocates exactly N leaf nodes and
\* exactly max(N-1, 0) internal nodes, and for N = 1 it initializes the single
\* leaf and runs neither the Morton codes, nor the sort, nor the hierarchy
\* generation, nor the propagation.
C11_AllocationAndSingleLeaf ==
    phase # "start" =>
        /\ DOMAIN leaf_nodes = 0..(N - 1)
        /\ DOMAIN internal_nodes = 0..(Max(N - 1, 0) - 1)
        /\ (N = 1 /\ phase = "done") =>
               /\ phases_run = <<"initializeLeafNodes">>
               /\ leaf_nodes[0].bounding_box = bounding_boxes[0]
               /\ isLeaf(LeafAddr(size, 0))
               /\ getIndex(LeafAddr(size, 0)) = 0

C11_Witness ==
    /\ phase = "done"
    /\ N = 1
    /\ size = 1
    /\ internal_nodes = <<>>
    /\ phases_run = <<"initializeLeafNodes">>

\* the leaves of the hierarchy
Leaves == {LeafAddr(size, j) : j \in DOMAIN leaf_nodes}

\* C12: getRoot is internal node 0 when N > 1, the sole leaf (slot 0) when
\* N = 1 and null when N = 0; every leaf lies below it, and both kernels start
\* from it: their first iteration finds it alone on the stack, and with one
\* leaf the index they report is the one that leaf holds.
C12_RootIsWhereQueriesStart ==
    /\ size > 1 => /\ getRoot = InternalAddr(0)
                   /\ Node(getRoot) = internal_nodes[0]
    /\ size = 1 => /\ getRoot = LeafAddr(size, 0)
                   /\ Node(getRoot) = leaf_nodes[0]
    /\ size = 0 => getRoot = Null
    /\ size >= 1 => LeavesBelow(getRoot) = Leaves
    /\ (pc = "spatial" /\ pops = 0) => stack = <<InternalAddr(0)>>
    /\ (pc = "nearest" /\ pops = 0) => stack = <<<<InternalAddr(0), 0>>>>
    /\ (pc = "returned" /\ size = 1 /\ result = 1) =>
           InsertedIndex(1) = leaf_nodes[0].second
    /\ (pc = "returned" /\ size = 0) => inserted = <<>>

C12_Witness ==
    /\ pc = "nearest"
    /\ pops = 0
    /\ size = MaxN
    /\ stack = <<<<InternalAddr(0), 0>>>>
    /\ Node(getRoot) = internal_nodes[0]

\* the smallest box around every input box, axis by axis
UnionOfInputs ==
    LET axes == DOMAIN bounding_boxes[0].min
        lowest(a) == CHOOSE x \in {bounding_boxes[i].min[a] : i \in DOMAIN bounding_boxes} :
                        \A i \in DOMAIN bounding_boxes : x <= bounding_boxes[i].min[a]
        highest(a) == CHOOSE x \in {bounding_boxes[i].max[a] : i \in DOMAIN bounding_boxes} :
                         \A i \in DOMAIN bounding_boxes : x >= bounding_boxes[i].max[a]
    IN  Box([a \in axes |-> lowest(a)], [a \in axes |-> highest(a)])

\* the phases that wrote the box of the node at addr, in order
BoxWriters(addr) == [i \in DOMAIN box_writes[addr] |-> box_writes[addr][i][1]]

\* C13: once the construction over N >= 1 boxes has completed, the root's box
\* is the union of the N input boxes: for N > 1 the box of internal node 0
\* after the scene's box and then the propagation were written into it, for
\* N = 1 the single input box.
C13_RootBoxIsUnionOfInputs ==
    (phase = "done" /\ N >= 1) =>
        /\ Node(getRoot).bounding_box = UnionOfInputs
        /\ N > 1 => /\ internal_nodes[0].bounding_box = UnionOfInputs
                    /\ BoxWriters(InternalAddr(0)) =
                           <<"calculateBoundingBoxOfTheScene", "calculateBoundingBoxes">>
        /\ N = 1 => leaf_nodes[0].bounding_box = bounding_boxes[0]

C13_Witness ==
    /\ phase = "done"
    /\ N = MaxN
    /\ \E i \in DOMAIN bounding_boxes : bounding_boxes[i] # UnionOfInputs
    /\ \A i \in DOMAIN bounding_boxes : ~Malformed(bounding_boxes[i])
    /\ UnionOfInputs = Box(<<0>>, <<MaxCoord>>)
    /\ internal_nodes[0].bounding_box = UnionOfInputs

\* the steps of the constructor end in a hierarchy Construct describes
BuildAgreesWithConstruct ==
    (phase = "done" /\ ~MalformedInput) =>
        \E tree \in Trees(0, N - 1) : Construct(bounding_boxes, tree)

\* C14: whenever an input box is malformed (min > max on an axis) the
\* constructor fails before any node is built and returns no hierarchy: no
\* phase runs, no node field is written, and the construction never completes.
C14_MalformedInputBuildsNothing ==
    MalformedInput =>
        /\ phases_run = <<>>
        /\ \A a \in DOMAIN box_writes : box_writes[a] = <<>> /\ child_writes[a] = <<>>
        /\ phase # "done"

\* the writes calculateBoundingBoxes made to the box of the node at addr
PropagationWrites(addr) ==
    SelectSeq(box_writes[addr], LAMBDA e : e[1] = "calculateBoundingBoxes")

\* C15: in the propagation, one worker starting at each leaf, under every
\* interleaving exactly one worker computes the union of an internal node: the
\* first worker to arrive stops there, the second computes the union and goes
\* on to the parent; no union is computed twice and, once the propagation is
\* over, none was skipped.
C15_OneUnionPerNode ==
    (phase \in {"propagate", "done"} /\ N > 1) =>
        \A i \in DOMAIN internal_nodes :
            LET node == InternalAddr(i)
                unions == PropagationWrites(node)
                came == arrivals[i]
            IN  /\ Len(came) <= 2
                /\ Len(unions) <= 1
                /\ Len(came) = 2 => came[1] # came[2]
                /\ Len(unions) = 1 => Len(came) = 2 /\ unions[1][2] = came[2]
                /\ (phase = "propagate" /\ Len(came) >= 1) =>
                       workers[came[1]] = [node |-> node, at |-> "stopped"]
                /\ (phase = "propagate" /\ Len(came) = 2) =>
                       IF unions = <<>>
                       THEN workers[came[2]] = [node |-> node, at |-> "union"]
                       ELSE IF node = getRoot
                       THEN workers[came[2]] = [node |-> node, at |-> "stopped"]
                       ELSE \/ workers[came[2]] = [node |-> Parent(node), at |-> "arrive"]
                            \/ \E j \in DOMAIN arrivals[Parent(node) - 1] :
                                  arrivals[Parent(node) - 1][j] = came[2]
                /\ phase = "done" => Len(came) = 2 /\ Len(unions) = 1

C15_Witness ==
    /\ phase = "done"
    /\ N = MaxN
    /\ \E i \in DOMAIN internal_nodes :
          /\ Len(PropagationWrites(InternalAddr(i))) = 1
          /\ PropagationWrites(InternalAddr(i))[1][2] # PropagationWrites(InternalAddr(0))[1][2]
          /\ arrivals[i][1] # arrivals[0][1]

\* every worker of the propagation has stopped
AllStopped ==
    \/ phase = "done"
    \/ phase = "propagate" /\ \A w \in DOMAIN workers : workers[w].at = "stopped"

\* every internal node's box is the union of the boxes its two children hold,
\* and so contains the box of every leaf below it
BoxesAreUnions ==
    \A i \in DOMAIN internal_nodes :
        /\ \A child \in {internal_nodes[i].first, internal_nodes[i].second} :
              box_writes[child] # <<>>
        /\ internal_nodes[i].bounding_box =
               expand(Node(internal_nodes[i].first).bounding_box,
                      Node(internal_nodes[i].second).bounding_box)
        /\ \A leaf \in LeavesBelow(InternalAddr(i)) :
              Within(Node(leaf).bounding_box, internal_nodes[i].bounding_box)

\* C16: under every interleaving of the workers the propagation terminates;
\* once every worker has stopped, every internal node's box is the union of
\* its two children's final boxes and contains every leaf box of its subtree;
\* and no union reads a child box nothing has written.
C16_PropagationTerminatesWithUnions ==
    /\ (phase = "propagate") ~> (phase = "done")
    /\ []((AllStopped /\ N > 1) => BoxesAreUnions)
    /\ [](~read_unwritten)

C16_Witness ==
    /\ phase = "done"
    /\ N = MaxN
    /\ ~read_unwritten
    /\ BoxesAreUnions
    /\ \E i \in DOMAIN internal_nodes :
          /\ internal_nodes[i].bounding_box # internal_nodes[0].bounding_box
          /\ ~isLeaf(internal_nodes[0].first) \/ ~isLeaf(internal_nodes[0].second)

----------------------------------------------------------------------------
\* Claims on two calls at once

----------------------------------------------------------------------------
\* Claims on the writes of the construction

\* s is the beginning of t
IsPrefix(s, t) == Len(s) <= Len(t) /\ \A i \in 1..Len(s) : s[i] = t[i]

InternalAddrs == {InternalAddr(i) : i \in DOMAIN internal_nodes}

\* the propagation has begun
Propagating == phase \in {"propagate", "done"} /\ N > 1

\* C18 as stated: each field of a node is written by one phase and once, the
\* child references by the generation of the hierarchy and the box by the
\* propagation; no internal node's box, internal node 0's included, is written
\* before the propagation.
C18_BoxesWrittenOnlyByPropagation ==
    \A node \in InternalAddrs :
        /\ IsPrefix(child_writes[node], <<"generateHierarchy">>)
        /\ IsPrefix(BoxWriters(node), <<"calculateBoundingBoxes">>)
        /\ ~Propagating => box_writes[node] = <<>>

\* C18, amended: each field of a node is written by one phase and once (a
\* leaf's box and index by initializeLeafNodes, an internal node's child
\* references by generateHierarchy, its box by calculateBoundingBoxes), except
\* the box of internal node 0, which calculateBoundingBoxOfTheScene writes
\* first and calculateBoundingBoxes writes again; no other internal node's box
\* is written before the propagation, and when the constructor returns every
\* one of these writes has happened.
C18_EachFieldWrittenOnceButRootBox ==
    phase # "start" =>
        /\ \A node \in InternalAddrs :
              LET box_phases == IF node = InternalAddr(0)
                                THEN <<"calculateBoundingBoxOfTheScene",
                                       "calculateBoundingBoxes">>
                                ELSE <<"calculateBoundingBoxes">>
              IN  /\ IsPrefix(child_writes[node], <<"generateHierarchy">>)
                  /\ IsPrefix(BoxWriters(node), box_phases)
                  /\ (~Propagating /\ node # InternalAddr(0)) => box_writes[node] = <<>>
                  /\ (~Propagating /\ phase # "scene") =>
                         BoxWriters(InternalAddr(0)) = <<"calculateBoundingBoxOfTheScene">>
                  /\ phase = "done" => /\ child_writes[node] = <<"generateHierarchy">>
                                       /\ BoxWriters(node) = box_phases
        /\ \A leaf \in Leaves :
              /\ IsPrefix(child_writes[leaf], <<"initializeLeafNodes">>)
              /\ IsPrefix(BoxWriters(leaf), <<"initializeLeafNodes">>)
              /\ phase = "done" => /\ child_writes[leaf] = <<"initializeLeafNodes">>
                                   /\ BoxWriters(leaf) = <<"initializeLeafNodes">>

\* the scene's box sits in internal node 0 while the Morton codes are assigned
C18_Witness ==
    /\ phase = "morton"
    /\ N = MaxN
    /\ BoxWriters(InternalAddr(0)) = <<"calculateBoundingBoxOfTheScene">>
    /\ internal_nodes[0].bounding_box = UnionOfInputs
    /\ internal_nodes[0].first = Null

----------------------------------------------------------------------------
\* Claims on the nodes

\* C19 as stated: the leaves are the nodes whose two child references are
\* both null, and both references of an internal node are not null.
C19_LeavesHaveBothChildrenNull ==
    /\ \A leaf \in Leaves :
          Node(leaf).first = Null /\ Node(leaf).second = Null
    /\ \A node \in InternalAddrs :
          Node(node).first # Null /\ Node(node).second # Null

\* C19, amended: the leaves are exactly the nodes whose first child reference
\* is null, which is all isLeaf tests; the second reference of a leaf holds the
\* original index of its primitive, so it is null for the leaf of primitive 0
\* only; both references of an internal node are not null.
C19_LeavesHaveFirstChildNull ==
    /\ \A leaf \in Leaves :
          /\ isLeaf(leaf)
          /\ Node(leaf).second = getIndex(leaf)
          /\ getIndex(leaf) \in DOMAIN bounding_boxes
          /\ Node(leaf).second = Null <=> getIndex(leaf) = 0
    /\ \A node \in InternalAddrs :
          /\ ~isLeaf(node)
          /\ Node(node).first # Null
          /\ Node(node).second # Null
    /\ {node \in Leaves \cup InternalAddrs : isLeaf(node)} = Leaves

\* the traversal has a leaf on top of its stack whose second reference is not
\* null
C19_Witness ==
    /\ pc = "spatial"
    /\ stack # <<>>
    /\ Top(stack) \in Leaves
    /\ isLeaf(Top(stack))
    /\ Node(Top(stack)).second # Null
    /\ getIndex(Top(stack)) = MaxN - 1

----------------------------------------------------------------------------
\* The scenario of the four unit cubes.  Lengths are counted in halves of a
\* unit, so that the faces of a unit cube lie on integers.

HalfUnits(x) == 2 * x

\* the centres of the cubes, by original index
CubeCentres == <<<<0, 0, 0>>, <<10, 0, 0>>, <<0, 10, 0>>, <<10, 10, 0>>>>

\* the cube of side one unit around the centre c
UnitCube(c) ==
    Box([a \in DOMAIN c |-> HalfUnits(c[a]) - 1], [a \in DOMAIN c |-> HalfUnits(c[a]) + 1])

CubeBoxes == [i \in 0..(Len(CubeCentres) - 1) |-> UnitCube(CubeCentres[i + 1])]

\* the query point (0, 0, 0)
Origin == [a \in 1..3 |-> HalfUnits(0)]

\* the orders the sort may leave the primitives in
Orders(boxes) ==
    {p \in [DOMAIN boxes -> DOMAIN boxes] :
        \A i \in DOMAIN boxes : \A j \in DOMAIN boxes : i # j => p[i] # p[j]}

\* the constructor's result for a given order of the leaves and a given tree
ConstructWith(boxes, indices, tree) ==
    LET n == Cardinality(DOMAIN boxes)
        leaves == initializeLeafNodes(indices, boxes)
    IN  /\ bounding_boxes = boxes
        /\ leaf_nodes = leaves
        /\ internal_nodes = calculateBoundingBoxes(generateHierarchy(tree, n), leaves)

\* the hierarchy of the four cubes, in whatever order the Morton codes of the
\* three axes leave the leaves and with whatever radix tree over them
InitCubes ==
    /\ \E indices \in Orders(CubeBoxes) :
        \E tree \in Trees(0, Len(CubeCentres) - 1) :
            ConstructWith(CubeBoxes, indices, tree)
    /\ ndebug \in BOOLEAN
    /\ cuda_arch \in BOOLEAN
    /\ Constructed
    /\ Idle
    /\ parked = IdleCall
    /\ NoCopyOperator

\* the nearest query for the point (0, 0, 0) with k = 2
CubesNearestCall == NearestCallWith(Origin, 2, 2)

NextCubes ==
    \/ CubesNearestCall
    \/ NearestStep
    \/ NearestReturn
    \/ Reset

SpecCubes == InitCubes /\ [][NextCubes]_vars

\* C20 as stated: on the four unit cubes the nearest query for (0, 0, 0) with
\* k = 2 reports two results, first the cube at (0, 0, 0) at distance 0, then
\* one of the cubes at (10, 0, 0) and (0, 10, 0) at distance 10.
C20_SecondCubeAtDistanceTen ==
    (pc = "returned" /\ kind = "nearest") =>
        /\ result = 2
        /\ inserted[1] = <<0, 0>>
        /\ inserted[2][1] \in {1, 2}
        /\ inserted[2][2] = Sq(HalfUnits(10))

\* C20, amended: the query reports two results, first the cube at (0, 0, 0)
\* at distance 0, then one of the cubes at (10, 0, 0) and (0, 10, 0) at
\* distance 9.5, the distance from the point to the nearest face of the cube.
C20_SecondCubeAtDistanceToItsFace ==
    (pc = "returned" /\ kind = "nearest") =>
        /\ result = 2
        /\ Len(inserted) = 2
        /\ inserted[1] = <<0, 0>>
        /\ inserted[2][1] \in {1, 2}
        /\ inserted[2][2] = Sq(HalfUnits(10) - 1)

\* the query has returned with the cube at (0, 10, 0) second
C20_Witness ==
    /\ pc = "returned"
    /\ kind = "nearest"
    /\ geometry = Origin
    /\ result = 2
    /\ inserted = <<<<0, 0>>, <<2, Sq(HalfUnits(10) - 1)>>>>

----------------------------------------------------------------------------
\* Claims on the steps of the queries

Nodes == Leaves \cup InternalAddrs

\* the predicate of the call at work is false of every node
FalseOnEveryNode == \A node \in Nodes : ~Holds(predicate, node)

\* C21: on a hierarchy of N >= 1 primitives, spatialQuery with a predicate
\* false on every node returns 0 and never calls insert: for N > 1 the root is
\* popped and expanded untested and neither child is pushed, for N = 1 the
\* root leaf is tested and rejected.
C21_FalsePredicateReportsNothing ==
    (kind = "spatial" /\ size >= 1 /\ FalseOnEveryNode) =>
        /\ inserted = <<>>
        /\ count = 0
        /\ pops <= 1
        /\ (pc = "spatial" /\ pops = 1) => stack = <<>>
        /\ pc = "returned" => /\ result = 0
                              /\ size > 1 => pops = 1
                              /\ size = 1 => pops = 0

C21_Witness ==
    /\ kind = "spatial"
    /\ pc = "returned"
    /\ size = MaxN
    /\ predicate.tag = "intersects"
    /\ FalseOnEveryNode
    /\ pops = 1
    /\ result = 0

\* the entries of the heap
HeapEntries == {buffer[i] : i \in 1..heap_size}

\* the largest distance the heap holds
WorstInHeap ==
    CHOOSE d \in {e[2] : e \in HeapEntries} : \A e \in HeapEntries : e[2] <= d

\* C22: at every iteration of nearestQuery's loop on N > 1 the radius is
\* +infinity while the heap holds fewer than k entries, it is the largest
\* distance in the heap whenever the heap holds k entries, and it never
\* increases from one iteration to the next.
C22_RadiusIsWorstOfK ==
    /\ [](pc = "nearest" =>
              /\ heap_size < k => radius = Infinity
              /\ heap_size = k => radius = WorstInHeap /\ radius < Infinity)
    /\ [][(pc = "nearest" /\ pc' = "nearest") => radius' <= radius]_vars

\* the heap is full, the radius is tightened and nodes are left to visit
C22_Witness ==
    /\ pc = "nearest"
    /\ size = MaxN
    /\ k >= 2
    /\ heap_size = k
    /\ radius = WorstInHeap
    /\ radius > 0
    /\ stack # <<>>

\* the indices of the primitives in the heap
HeapIndices == {e[1] : e \in HeapEntries}

\* the pair the loop makes of the leaf on top of the stack
LeafOnTop == <<getIndex(Top(stack)[1]), Top(stack)[2]>>

\* C23: at every step of nearestQuery with a buffer of k slots the heap holds
\* at most k entries, all in the buffer; a leaf is pushed only while the heap
\* holds fewer than k entries; once the heap is full a leaf replaces the worst
\* entry, and only when its distance is strictly smaller than the worst; no
\* index is in the heap twice.
C23_HeapBoundedByK ==
    /\ []((pc = "nearest" /\ BufferMatchesK(k, Len(buffer))) =>
              /\ heap_size <= k
              /\ heap_size <= Len(buffer)
              /\ \A i \in (heap_size + 1)..Len(buffer) : buffer[i] = Unset
              /\ Cardinality(HeapIndices) = heap_size)
    /\ [][(pc = "nearest" /\ pc' = "nearest" /\ BufferMatchesK(k, Len(buffer))) =>
              /\ heap_size' \in {heap_size, heap_size + 1}
              /\ heap_size' = heap_size + 1 =>
                     /\ heap_size < k
                     /\ isLeaf(Top(stack)[1])
                     /\ HeapEntries' = HeapEntries \cup {LeafOnTop}
              /\ (heap_size' = heap_size /\ buffer' # buffer) =>
                     /\ heap_size = k
                     /\ isLeaf(Top(stack)[1])
                     /\ LeafOnTop[2] < WorstInHeap
                     /\ \E worst \in HeapEntries :
                           /\ worst[2] = WorstInHeap
                           /\ HeapEntries' = (HeapEntries \ {worst}) \cup {LeafOnTop}]_vars

\* the heap is full and the leaf on top of the stack is nearer than its worst
C23_Witness ==
    /\ pc = "nearest"
    /\ size = MaxN
    /\ k >= 2
    /\ Len(buffer) = k
    /\ heap_size = k
    /\ stack # <<>>
    /\ isLeaf(Top(stack)[1])
    /\ LeafOnTop[2] < WorstInHeap

\* the loop is about to expand the internal node on top of the stack
Expanding ==
    /\ pc = "nearest"
    /\ stack # <<>>
    /\ Top(stack)[2] < radius
    /\ ~isLeaf(Top(stack)[1])

\* a child of the node being expanded, with its distance to the query point
ChildWithDistance(child) == <<child, distance(geometry, Node(child).bounding_box)>>

\* C24: on the host, once nearestQuery has expanded an internal node both
\* children are on the stack in place of the node, the child of strictly
\* smaller distance on top; when the distances are equal the right child is
\* on top.  The top of the stack is what the next iteration pops.
C24_NearerChildOnTop ==
    [][(Expanding /\ ~cuda_arch) =>
          LET left == ChildWithDistance(Node(Top(stack)[1]).first)
              right == ChildWithDistance(Node(Top(stack)[1]).second)
          IN  /\ Len(stack') = Len(stack) + 1
              /\ SubSeq(stack', 1, Len(stack) - 1) = Pop(stack)
              /\ left[2] < right[2] =>
                     stack'[Len(stack')] = left /\ stack'[Len(stack)] = right
              /\ left[2] >= right[2] =>
                     stack'[Len(stack')] = right /\ stack'[Len(stack)] = left]_vars

\* a node has been expanded whose children are at the same distance: both
\* are on the stack, the right one on top
C24_Witness ==
    /\ pc = "nearest"
    /\ ~cuda_arch
    /\ size = MaxN
    /\ Len(stack) >= 2
    /\ \E node \in InternalAddrs :
          /\ Top(stack) = ChildWithDistance(Node(node).second)
          /\ stack[Len(stack) - 1] = ChildWithDistance(Node(node).first)
          /\ Top(stack)[2] = stack[Len(stack) - 1][2]
          /\ Top(stack)[2] > 0

\* the call at work is in its loop
InLoop == pc \in {"spatial", "nearest"}

\* the nodes on the stack, bottom first
StackNode(i) == IF kind = "nearest" THEN stack[i][1] ELSE stack[i]

\* every node went on the stack once at most: the popped ones and the ones on
\* the stack are no more than the nodes, and the ones on the stack are
\* different nodes with no leaf below two of them
PushedOnce ==
    /\ pops + Len(stack) <= 2 * size - 1
    /\ \A i \in DOMAIN stack : \A j \in DOMAIN stack :
          i # j => /\ StackNode(i) # StackNode(j)
                   /\ LeavesBelow(StackNode(i)) \cap LeavesBelow(StackNode(j)) = {}

\* the call at work cannot run its heap past the end of its buffer
BufferHoldsK == kind = "spatial" \/ Len(buffer) >= k

----------------------------------------------------------------------------
\* CopyOperator: the constructor, create_copy_mapping() and copy()

\* the variables of the hierarchy and of its queries
search == <<bounding_boxes, leaf_nodes, internal_nodes, ndebug, cuda_arch, query,
            construction, parked>>

\* d_source and d_target as the constructor receives them: Teuchos::null, or an
\* implementation that supports the field name or does not
Sources == {"null", "supported", "unsupported"}

\* testPrecondition and testPostcondition: TRUE when the test lets the caller
\* go on, FALSE when it throws
testPrecondition_Off(throw_if_false) == TRUE

testPrecondition(throw_if_false) == throw_if_false

testPostcondition(throw_if_false) == throw_if_false

NotMapped == "Source not mapped to target prior to copy operation"

\* the objects point_map makes and tests, in the order it makes them
PointMapObjects ==
    <<"d_target_map", "d_source_map", "d_export", "d_source_vector",
      "d_target_vector">>

\* no hierarchy is built and no query is made
NoSearch ==
    /\ bounding_boxes = <<>>
    /\ leaf_nodes = <<>>
    /\ internal_nodes = <<>>
    /\ ndebug = FALSE
    /\ cuda_arch = FALSE
    /\ Constructed
    /\ Idle
    /\ parked = IdleCall

InitCopy ==
    /\ NoSearch
    /\ d_source = "null"
    /\ d_target = "null"
    /\ d_global_data = FALSE
    /\ d_mapped = FALSE
    /\ d_active_source = FALSE
    /\ d_active_target = FALSE
    /\ d_export = "null"
    /\ d_target_vector = "null"
    /\ operator_pc = "unconstructed"
    /\ calls = <<>>
    /\ exports = 0

\* the constructor; a test that throws leaves no operator
CopyOperator ==
    /\ operator_pc = "unconstructed"
    /\ \E source \in Sources : \E target \in Sources : \E global_data \in BOOLEAN :
        LET source_passed ==
                source = "null" \/ testPrecondition(source = "supported")
            target_passed ==
                target = "null" \/ testPrecondition(target = "supported")
        IN  /\ d_source' = source
            /\ d_target' = target
            /\ d_global_data' = global_data
            /\ d_mapped' = FALSE
            /\ d_active_source' = (source # "null" /\ source_passed)
            /\ d_active_target' =
                   (source_passed /\ target # "null" /\ target_passed)
            /\ operator_pc' =
                   IF source_passed /\ target_passed THEN "constructed"
                   ELSE "failed"
    /\ UNCHANGED <<d_export, d_target_vector, calls, exports, search>>

Active == d_active_source \/ d_active_target

\* create_copy_mapping(); null_at is the first object of point_map that comes
\* out null, 0 when none does
create_copy_mapping ==
    /\ operator_pc = "constructed"
    /\ Len(calls) < MaxCalls
    /\ IF Active /\ ~d_global_data
       THEN \E null_at \in 0..Len(PointMapObjects) :
              /\ d_export' =
                     IF null_at = 3 THEN "null"
                     ELSE IF null_at = 0 \/ null_at > 3 THEN "made"
                     ELSE d_export
              /\ d_target_vector' =
                     IF null_at = 5 THEN "null"
                     ELSE IF null_at = 0 THEN "made"
                     ELSE d_target_vector
              /\ IF testPostcondition(null_at = 0)
                 THEN /\ d_mapped' = TRUE
                      /\ calls' = Append(calls, <<"create_copy_mapping", "mapped">>)
                 ELSE /\ d_mapped' = d_mapped
                      /\ calls' = Append(calls, <<"create_copy_mapping",
                                                  PointMapObjects[null_at]>>)
       ELSE /\ calls' = Append(calls, <<"create_copy_mapping", "returned">>)
            /\ UNCHANGED <<d_export, d_target_vector, d_mapped>>
    /\ UNCHANGED <<d_source, d_target, d_global_data, d_active_source,
                   d_active_target, operator_pc, exports, search>>

\* copy(); global_copy and distributed_copy go through d_source, d_target,
\* d_target_vector and d_export, and through a null one the behaviour is
\* undefined
copy ==
    /\ operator_pc = "constructed"
    /\ Len(calls) < MaxCalls
    /\ IF ~Active
       THEN /\ calls' = Append(calls, <<"copy", "returned">>)
            /\ UNCHANGED <<operator_pc, exports>>
       ELSE IF d_global_data
       THEN IF d_source # "null" /\ d_target # "null"
            THEN /\ calls' = Append(calls, <<"copy", "global_copy">>)
                 /\ UNCHANGED <<operator_pc, exports>>
            ELSE /\ calls' = Append(calls, <<"copy", "undefined">>)
                 /\ operator_pc' = "undefined"
                 /\ exports' \in {exports, exports + 1}
       ELSE IF ~testPrecondition(d_mapped)
       THEN /\ calls' = Append(calls, <<"copy", NotMapped>>)
            /\ UNCHANGED <<operator_pc, exports>>
       ELSE IF d_target_vector # "null" /\ d_export # "null"
       THEN /\ calls' = Append(calls, <<"copy", "exported">>)
            /\ exports' = exports + 1
            /\ UNCHANGED operator_pc
       ELSE /\ calls' = Append(calls, <<"copy", "undefined">>)
            /\ operator_pc' = "undefined"
            /\ exports' \in {exports, exports + 1}
    /\ UNCHANGED <<d_source, d_target, d_global_data, d_mapped, d_active_source,
                   d_active_target, d_export, d_target_vector, search>>

NextCopy ==
    \/ CopyOperator
    \/ create_copy_mapping
    \/ copy

SpecCopy == InitCopy /\ [][NextCopy]_vars

----------------------------------------------------------------------------
\* Claims on the CopyOperator

\* an operator with an active source or target that copies distributed data
DistributedCopier ==
    /\ operator_pc \in {"constructed", "undefined"}
    /\ Active
    /\ ~d_global_data

\* a create_copy_mapping() among the first n calls ran to its end
MappedWithin(n) ==
    \E j \in 1..n : calls[j] = <<"create_copy_mapping", "mapped">>

\* the step is a call to copy()
CopyCalled ==
    /\ Len(calls') = Len(calls) + 1
    /\ calls'[Len(calls')][1] = "copy"

\* C26: for a CopyOperator with an active source or target and global_data
\* false, in any sequence of create_copy_mapping() and copy() calls, a copy()
\* exports only when a create_copy_mapping() completed before it; a copy()
\* before that fails the precondition "Source not mapped to target prior to
\* copy operation" and exports nothing; d_mapped, once set, is never cleared.
C26_CopyExportsOnlyAfterMapping ==
    /\ [](DistributedCopier =>
             \A i \in DOMAIN calls :
                 calls[i] = <<"copy", "exported">> => MappedWithin(i - 1))
    /\ [][(DistributedCopier /\ exports' # exports) =>
              (CopyCalled /\ MappedWithin(Len(calls)))]_vars
    /\ [][(DistributedCopier /\ CopyCalled /\ ~MappedWithin(Len(calls))) =>
              /\ calls'[Len(calls')] = <<"copy", NotMapped>>
              /\ exports' = exports]_vars
    /\ [][d_mapped => d_mapped']_vars

\* a copy() that failed the precondition, then a mapping, then a copy() that
\* exported
C26_Witness ==
    /\ DistributedCopier
    /\ d_mapped
    /\ exports = 1
    /\ calls = <<<<"copy", NotMapped>>, <<"create_copy_mapping", "mapped">>,
                 <<"copy", "exported">>>>

====
